---- MODULE Spec2Model ----
(***************************************************************************)
(* csv-payments: replay of a transaction log into per-client accounts.     *)
(*                                                                         *)
(* Account::settle_transaction (src/src/account.rs) is the settlement      *)
(* engine; process_transactions (src/src/main.rs) is the processing loop   *)
(* with its working queue, account map and reference index.                *)
(*                                                                         *)
(* Amounts are rust_decimal values.  They are modelled as exact integers   *)
(* (a fixed minor unit); the bounded amounts stay far inside the 96-bit    *)
(* mantissa, so no addition overflows or is rescaled.                      *)
(***************************************************************************)
EXTENDS Integers, Sequences, FiniteSets

\* ---------------------------------------------------------------- bounds
MaxLen == 3        \* longest input stream
PopCap == 3        \* the pop counter (a history variable) saturates here
MaxBalance == 1    \* direct calls: starting balances range over -MaxBalance..MaxBalance
MaxUnitSteps == 2  \* direct calls: settle_transaction calls per run

ClientIds == {1, 2}
TxIds == {1, 2}
DepositAmounts == {2}         \* amounts carried by the Deposits of a stream
WithdrawalAmounts == {1}      \* amounts carried by the Withdrawals of a stream
UnitAmounts == {-1, 0, 1, 2}  \* amounts used when settle_transaction is called directly

\* ------------------------------------------------------------ data model
\* Option<T>
None == [some |-> FALSE]
Some(v) == [some |-> TRUE, val |-> v]

\* enum TransactionType
TransactionType == {"Deposit", "Withdrawal", "Dispute", "Resolve", "Chargeback"}
MonetaryTypes == {"Deposit", "Withdrawal"}
ReferenceTypes == {"Dispute", "Resolve", "Chargeback"}

\* struct Transaction { type, client_id, tx_id, amount }
Transaction(ty, c, t, a) == [type |-> ty, client_id |-> c, tx_id |-> t, amount |-> a]

Optional(S) == {None} \cup {Some(a) : a \in S}

\* The records a stream is drawn from.  A Deposit carries an amount or a
\* blank, a Withdrawal an amount (a Withdrawal with a blank is settled in the
\* direct calls below); dispute-family records carry a blank, as the input
\* format has it.
DepositRecords ==
    {Transaction("Deposit", c, t, a) : c \in ClientIds, t \in TxIds,
                                       a \in Optional(DepositAmounts)}
WithdrawalRecords ==
    {Transaction("Withdrawal", c, t, a) : c \in ClientIds, t \in TxIds,
                                          a \in {Some(w) : w \in WithdrawalAmounts}}
MonetaryRecords == DepositRecords \cup WithdrawalRecords
ReferenceRecords ==
    {Transaction(ty, c, t, None) : ty \in ReferenceTypes, c \in ClientIds, t \in TxIds}
Records == MonetaryRecords \cup ReferenceRecords

\* Account::new
Account_new(id) ==
    [client_id |-> id, funds_available |-> 0, funds_held |-> 0,
     funds_total |-> 0, locked |-> FALSE]

\* ---------------------------------------------------- settlement engine
\* slip: a deposit is not added to the total
settle_deposit_keeps_total(acc, tx) ==
    IF tx.amount.some
    THEN [acc EXCEPT !.funds_available = @ + tx.amount.val]
    ELSE acc

settle_deposit(acc, tx) ==
    IF tx.amount.some
    THEN [acc EXCEPT !.funds_available = @ + tx.amount.val,
                     !.funds_total = @ + tx.amount.val]
    ELSE acc

\* slip: the total is left as it was
settle_withdrawal_keeps_total(acc, tx) ==
    IF tx.amount.some /\ acc.funds_available >= tx.amount.val
    THEN [acc EXCEPT !.funds_available = @ - tx.amount.val]
    ELSE acc

\* slip: the balance check reads the total, not the available funds
settle_withdrawal_checks_total(acc, tx) ==
    IF tx.amount.some /\ acc.funds_total >= tx.amount.val
    THEN [acc EXCEPT !.funds_available = @ - tx.amount.val,
                     !.funds_total = @ - tx.amount.val]
    ELSE acc

\* slip: the available funds are not compared with the amount
settle_withdrawal_unchecked(acc, tx) ==
    IF tx.amount.some
    THEN [acc EXCEPT !.funds_available = @ - tx.amount.val,
                     !.funds_total = @ - tx.amount.val]
    ELSE acc

settle_withdrawal(acc, tx) ==
    IF tx.amount.some /\ acc.funds_available >= tx.amount.val
    THEN [acc EXCEPT !.funds_available = @ - tx.amount.val,
                     !.funds_total = @ - tx.amount.val]
    ELSE acc

\* slip: a dispute is refused when the available funds do not cover it
settle_dispute_checks_balance(acc, ref_tx) ==
    IF ref_tx.some /\ ref_tx.val.amount.some /\ acc.funds_available >= ref_tx.val.amount.val
    THEN [acc EXCEPT !.funds_available = @ - ref_tx.val.amount.val,
                     !.funds_held = @ + ref_tx.val.amount.val]
    ELSE acc

settle_dispute(acc, ref_tx) ==
    IF ref_tx.some /\ ref_tx.val.amount.some
    THEN [acc EXCEPT !.funds_available = @ - ref_tx.val.amount.val,
                     !.funds_held = @ + ref_tx.val.amount.val]
    ELSE acc

\* slip: resolving a dispute lifts the lock
settle_resolve_unlocks(acc, ref_tx) ==
    IF ref_tx.some /\ ref_tx.val.amount.some
    THEN [acc EXCEPT !.funds_available = @ + ref_tx.val.amount.val,
                     !.funds_held = @ - ref_tx.val.amount.val,
                     !.locked = FALSE]
    ELSE acc

\* slip: the released amount is not taken out of the held funds
settle_resolve_keeps_held(acc, ref_tx) ==
    IF ref_tx.some /\ ref_tx.val.amount.some
    THEN [acc EXCEPT !.funds_available = @ + ref_tx.val.amount.val]
    ELSE acc

\* slip: a resolve is refused when the held funds do not cover it
settle_resolve_checks_held(acc, ref_tx) ==
    IF ref_tx.some /\ ref_tx.val.amount.some /\ acc.funds_held >= ref_tx.val.amount.val
    THEN [acc EXCEPT !.funds_available = @ + ref_tx.val.amount.val,
                     !.funds_held = @ - ref_tx.val.amount.val]
    ELSE acc

settle_resolve(acc, ref_tx) ==
    IF ref_tx.some /\ ref_tx.val.amount.some
    THEN [acc EXCEPT !.funds_available = @ + ref_tx.val.amount.val,
                     !.funds_held = @ - ref_tx.val.amount.val]
    ELSE acc

\* slip: the amount charged back is taken from the available funds
settle_chargeback_from_available(acc, ref_tx) ==
    IF ref_tx.some /\ ref_tx.val.amount.some
    THEN [acc EXCEPT !.funds_available = @ - ref_tx.val.amount.val,
                     !.funds_total = @ - ref_tx.val.amount.val,
                     !.locked = TRUE]
    ELSE acc

\* slip: the account is locked even when there is no amount to charge back
settle_chargeback_always_locks(acc, ref_tx) ==
    IF ref_tx.some /\ ref_tx.val.amount.some
    THEN [acc EXCEPT !.funds_held = @ - ref_tx.val.amount.val,
                     !.funds_total = @ - ref_tx.val.amount.val,
                     !.locked = TRUE]
    ELSE [acc EXCEPT !.locked = TRUE]

settle_chargeback(acc, ref_tx) ==
    IF ref_tx.some /\ ref_tx.val.amount.some
    THEN [acc EXCEPT !.funds_held = @ - ref_tx.val.amount.val,
                     !.funds_total = @ - ref_tx.val.amount.val,
                     !.locked = TRUE]
    ELSE acc

\* Account::settle_transaction(&mut self, tx, ref_tx): the account afterwards
settle_transaction(acc, tx, ref_tx) ==
    CASE tx.type = "Deposit" -> settle_deposit(acc, tx)
      [] tx.type = "Withdrawal" -> settle_withdrawal(acc, tx)
      [] tx.type = "Dispute" -> settle_dispute(acc, ref_tx)
      [] tx.type = "Resolve" -> settle_resolve(acc, ref_tx)
      [] tx.type = "Chargeback" -> settle_chargeback(acc, ref_tx)

\* ------------------------------------------------------------------ state
VARIABLES
    input,                     \* the stream handed to process_transactions (records are immutable)
    unprocessed_transactions,  \* VecDeque<Transaction>, each record held as its place in input
    accounts,                  \* AccountsDB: client_id -> Account (domain = known clients)
    ref_txs,                   \* TransactionsDB: tx_id -> Transaction
    pc,                        \* "loop" | "done" for process_transactions, "unit" for direct calls
    last,                      \* history: what the latest iteration / call did
    history,                   \* history: every settle_transaction call so far
    pops                       \* history: pops per input position, saturating at PopCap

vars == <<input, unprocessed_transactions, accounts, ref_txs, pc, last, history, pops>>

\* HashMap helpers
EmptyMap == [k \in {} |-> None]
Insert(m, k, v) == [x \in (DOMAIN m) \cup {k} |-> IF x = k THEN v ELSE m[x]]
Get(m, k) == IF k \in DOMAIN m THEN Some(m[k]) ELSE None

\* slip: insert() in place of entry().or_insert_with(): a known account is reset
EntryOrInsert_resets(m, id) == Insert(m, id, Account_new(id))

\* accounts.entry(id).or_insert_with(|| Account::new(id))
EntryOrInsert(m, id) == IF id \in DOMAIN m THEN m ELSE Insert(m, id, Account_new(id))

\* slip: a settled record is pushed back as a deferred one is
Popped_pushes_back(q) == Append(Tail(q), Head(q))

\* pop_front(): the queue without its front
Popped(q) == Tail(q)

\* slip: a record whose reference is not indexed is dropped
Requeued_drops(q) == Tail(q)

\* slip: a deferred record is retried right after the next record
Requeued_behind_next(q) ==
    IF Len(q) >= 2 THEN <<q[2], q[1]>> \o SubSeq(q, 3, Len(q)) ELSE q

\* pop_front() then push_back(tx): the front goes to the end
Requeued(q) == Append(Tail(q), Head(q))

\* slip: the index is keyed by the client, not by the transaction
Indexed_by_client(m, tx) == Insert(m, tx.client_id, tx)

\* slip: a record without amount is not indexed
Indexed_skips_blank(m, tx) == IF tx.amount.some THEN Insert(m, tx.tx_id, tx) ELSE m

\* ref_txs.insert(tx.tx_id, tx)
Indexed(m, tx) == Insert(m, tx.tx_id, tx)

Min(a, b) == IF a < b THEN a ELSE b
Bump(p, i) == [p EXCEPT ![i] = Min(@ + 1, PopCap)]

\* The code uses client and transaction ids as map keys only, so a stream and
\* its renamings behave alike: streams are taken with their ids numbered in
\* order of first appearance.
FirstUse(s, f) ==
    \A i \in 1..Len(s) : \A k \in 1..(s[i][f] - 1) : {j \in 1..(i - 1) : s[j][f] = k} # {}

\* The streams of n records
Inputs(n) ==
    {s \in [1..n -> Records] : FirstUse(s, "client_id") /\ FirstUse(s, "tx_id")}

Init ==
    /\ \E n \in 0..MaxLen : input \in Inputs(n)
    /\ unprocessed_transactions = [i \in 1..Len(input) |-> i]
    /\ accounts = EmptyMap
    /\ ref_txs = EmptyMap
    /\ pc = "loop"
    /\ last = [kind |-> "none"]
    /\ history = <<>>
    /\ pops = [i \in 1..Len(input) |-> 0]

\* History record of one iteration (or one direct call): the record popped,
\* its place in the input, the reference handed to settle_transaction, whether
\* the account was created for it, and the account as it was before.
Event(kind, pos, tx, ref, created, before) ==
    [kind |-> kind, pos |-> pos, tx |-> tx, ref |-> ref,
     created |-> created, before |-> before]

\* main.rs 73-75: Deposit / Withdrawal is settled at once and indexed
SettleMonetary ==
    /\ pc = "loop"
    /\ unprocessed_transactions # <<>>
    /\ LET pos == Head(unprocessed_transactions)
           tx == input[pos]
           accs == EntryOrInsert(accounts, tx.client_id)
           acc == accs[tx.client_id]
           ev == Event("settled", pos, tx, None, tx.client_id \notin DOMAIN accounts, acc)
       IN /\ tx.type \in MonetaryTypes
          /\ unprocessed_transactions' = Popped(unprocessed_transactions)
          /\ accounts' = [accs EXCEPT ![tx.client_id] = settle_transaction(acc, tx, None)]
          /\ ref_txs' = Indexed(ref_txs, tx)
          /\ last' = ev
          /\ history' = Append(history, ev)
          /\ pops' = Bump(pops, pos)
    /\ UNCHANGED <<input, pc>>

\* main.rs 76-77: a dispute-family record whose tx_id is indexed is settled
SettleReferenced ==
    /\ pc = "loop"
    /\ unprocessed_transactions # <<>>
    /\ LET pos == Head(unprocessed_transactions)
           tx == input[pos]
           accs == EntryOrInsert(accounts, tx.client_id)
           acc == accs[tx.client_id]
           ref_tx == Get(ref_txs, tx.tx_id)
           ev == Event("settled", pos, tx, ref_tx, tx.client_id \notin DOMAIN accounts, acc)
       IN /\ tx.type \notin MonetaryTypes
          /\ ref_tx.some
          /\ unprocessed_transactions' = Popped(unprocessed_transactions)
          /\ accounts' = [accs EXCEPT ![tx.client_id] = settle_transaction(acc, tx, ref_tx)]
          /\ last' = ev
          /\ history' = Append(history, ev)
          /\ pops' = Bump(pops, pos)
    /\ UNCHANGED <<input, ref_txs, pc>>

\* slip: the account is looked up only once a record can be settled
Requeue_without_account ==
    /\ pc = "loop"
    /\ unprocessed_transactions # <<>>
    /\ LET pos == Head(unprocessed_transactions)
           tx == input[pos]
           accs == EntryOrInsert(accounts, tx.client_id)
           acc == accs[tx.client_id]
           ref_tx == Get(ref_txs, tx.tx_id)
       IN /\ tx.type \notin MonetaryTypes
          /\ ~ref_tx.some
          /\ unprocessed_transactions' = Requeued(unprocessed_transactions)
          /\ accounts' = accounts
          /\ last' = Event("requeued", pos, tx, None, tx.client_id \notin DOMAIN accounts, acc)
          /\ pops' = Bump(pops, pos)
    /\ UNCHANGED <<input, ref_txs, pc, history>>

\* main.rs 78-80: otherwise the record goes back to the end of the queue
Requeue ==
    /\ pc = "loop"
    /\ unprocessed_transactions # <<>>
    /\ LET pos == Head(unprocessed_transactions)
           tx == input[pos]
           accs == EntryOrInsert(accounts, tx.client_id)
           acc == accs[tx.client_id]
           ref_tx == Get(ref_txs, tx.tx_id)
       IN /\ tx.type \notin MonetaryTypes
          /\ ~ref_tx.some
          /\ unprocessed_transactions' = Requeued(unprocessed_transactions)
          /\ accounts' = accs
          /\ last' = Event("requeued", pos, tx, None, tx.client_id \notin DOMAIN accounts, acc)
          /\ pops' = Bump(pops, pos)
    /\ UNCHANGED <<input, ref_txs, pc, history>>

\* main.rs 64, 83: the queue is empty, the loop ends and accounts is returned
Finish ==
    /\ pc = "loop"
    /\ unprocessed_transactions = <<>>
    /\ pc' = "done"
    /\ UNCHANGED <<input, unprocessed_transactions, accounts, ref_txs, last, history, pops>>

Next == SettleMonetary \/ SettleReferenced \/ Requeue \/ Finish

Spec == Init /\ [][Next]_vars

\* The loop is a plain sequential program: it always takes its next step.
FairSpec == Spec /\ WF_vars(Next)

\* ----------------------------------------------------------- direct calls
\* settle_transaction called on an account built field by field, as the tests
\* of account.rs do (the fields are pub): any starting balances, any record,
\* any reference.
UnitClient == 1
UnitTx == 1
Balances == (-MaxBalance)..MaxBalance
UnitOptAmounts == Optional(UnitAmounts)
\* funds_total starts as the sum of the other two or off it: no arm reads it
TotalSlack == {0, 1}
UnitAccounts ==
    {[client_id |-> UnitClient, funds_available |-> a, funds_held |-> h,
      funds_total |-> a + h + d, locked |-> l] :
        a \in Balances, h \in Balances, d \in TotalSlack, l \in BOOLEAN}
UnitMonetary ==
    {Transaction(ty, UnitClient, UnitTx, a) : ty \in MonetaryTypes, a \in UnitOptAmounts}
UnitReference ==
    {Transaction(ty, UnitClient, UnitTx, None) : ty \in ReferenceTypes}
UnitRefs ==
    {None} \cup {Some(Transaction("Deposit", UnitClient, UnitTx, a)) : a \in UnitOptAmounts}

UnitInit ==
    /\ input = <<>>
    /\ unprocessed_transactions = <<>>
    /\ \E a \in UnitAccounts : accounts = Insert(EmptyMap, UnitClient, a)
    /\ ref_txs = EmptyMap
    /\ pc = "unit"
    /\ last = [kind |-> "none"]
    /\ history = <<>>
    /\ pops = <<>>

\* acc.settle_transaction(&tx, ref_tx)
UnitSettle(tx, ref_tx) ==
    /\ pc = "unit"
    /\ Len(history) < MaxUnitSteps
    /\ LET acc == accounts[UnitClient]
           ev == Event("settled", 0, tx, ref_tx, FALSE, acc)
       IN /\ accounts' = [accounts EXCEPT ![UnitClient] = settle_transaction(acc, tx, ref_tx)]
          /\ last' = ev
          /\ history' = Append(history, ev)
    /\ UNCHANGED <<input, unprocessed_transactions, ref_txs, pc, pops>>

UnitNext ==
    \/ \E tx \in UnitMonetary : UnitSettle(tx, None)
    \/ \E tx \in UnitReference : \E ref_tx \in UnitRefs : UnitSettle(tx, ref_tx)

UnitSpec == UnitInit /\ [][UnitNext]_vars

\* --------------------------------------------------------------- helpers
\* The account the latest iteration / call worked on, as it is now
LastAccount == accounts[last.tx.client_id]
Settled == last.kind = "settled"

\* ================================================================ claims

\* C1: for every account, after each settlement step of process_transactions
\* (any mix of record types, amounts present or absent, no-op steps included),
\* funds_total = funds_available + funds_held.
C1_TotalIsAvailablePlusHeld ==
    \A c \in DOMAIN accounts :
        accounts[c].funds_total = accounts[c].funds_available + accounts[c].funds_held

\* C1 witness: after a withdrawal went through, a chargeback has been settled
\* on the account, leaving all three balances different from zero.
C1_Witness ==
    /\ Settled
    /\ last.tx.type = "Chargeback"
    /\ last.ref.val.amount.some
    /\ LastAccount.funds_available # 0
    /\ LastAccount.funds_held # 0
    /\ LastAccount.funds_total # 0
    /\ \E k \in 1..Len(history) :
          /\ history[k].tx.type = "Withdrawal"
          /\ history[k].tx.client_id = last.tx.client_id
          /\ history[k].before.funds_available >= history[k].tx.amount.val

\* C2: a Withdrawal of amount A changes the account iff the amount is present
\* and funds_available >= A; then funds_available and funds_total each drop by
\* A while funds_held and locked stay; in every other case (funds_available < A,
\* also when the money is only in funds_held, or no amount) the four fields are
\* unchanged.
C2_WithdrawalEffect ==
    (Settled /\ last.tx.type = "Withdrawal") =>
        LET b == last.before
            a == LastAccount
            A == last.tx.amount
        IN IF A.some /\ b.funds_available >= A.val
           THEN /\ a.funds_available = b.funds_available - A.val
                /\ a.funds_total = b.funds_total - A.val
                /\ a.funds_held = b.funds_held
                /\ a.locked = b.locked
           ELSE /\ a.funds_available = b.funds_available
                /\ a.funds_total = b.funds_total
                /\ a.funds_held = b.funds_held
                /\ a.locked = b.locked

\* C2 witness: one withdrawal went through, and the next one, of an amount the
\* held funds alone would cover, left the account as it was.
C2_Witness ==
    /\ Len(history) = 2
    /\ history[1].tx.type = "Withdrawal"
    /\ history[1].tx.amount.some
    /\ history[1].tx.amount.val > 0
    /\ history[2].before.funds_available = history[1].before.funds_available - history[1].tx.amount.val
    /\ history[2].tx.type = "Withdrawal"
    /\ history[2].tx.amount.some
    /\ history[2].before.funds_available < history[2].tx.amount.val
    /\ history[2].before.funds_held >= history[2].tx.amount.val
    /\ LastAccount = history[2].before

\* C3: once an account is locked, no later transaction for that client changes
\* it: funds_available, funds_held and funds_total keep the values they had at
\* the moment of locking.
C3_LockedAccountFrozen ==
    (Settled /\ last.before.locked) =>
        /\ LastAccount.funds_available = last.before.funds_available
        /\ LastAccount.funds_held = last.before.funds_held
        /\ LastAccount.funds_total = last.before.funds_total

\* An account is being charged back by the iteration about to run
ChargebackSettles(c) ==
    /\ unprocessed_transactions # <<>>
    /\ LET tx == input[Head(unprocessed_transactions)]
       IN /\ tx.type = "Chargeback"
          /\ tx.client_id = c
          /\ Get(ref_txs, tx.tx_id).some
          /\ Get(ref_txs, tx.tx_id).val.amount.some

WasLocked(c) == c \in DOMAIN accounts /\ accounts[c].locked

\* C4: locked is monotonic: an account is created unlocked, becomes locked only
\* by settling a Chargeback whose referenced transaction has an amount, and
\* once locked stays locked through every later transaction of any type.
C4_LockedMonotonic ==
    [][\A c \in DOMAIN accounts' :
          /\ WasLocked(c) => accounts'[c].locked
          /\ (~WasLocked(c) /\ accounts'[c].locked) => ChargebackSettles(c)]_vars

\* C4 witness: a locked account has had a Resolve settled on it with an
\* amount, and is still locked.
C4_Witness ==
    /\ Settled
    /\ last.before.locked
    /\ last.tx.type = "Resolve"
    /\ last.ref.val.amount.some
    /\ LastAccount.locked

\* ------------------------------------------------ the stream's references
Positions == 1..Len(input)
IsReference(i) == input[i].type \in ReferenceTypes
AppearsAsMonetary(t) ==
    \E j \in Positions : input[j].type \in MonetaryTypes /\ input[j].tx_id = t
Resolvable(i) == IsReference(i) /\ AppearsAsMonetary(input[i].tx_id)
Dangling(i) == IsReference(i) /\ ~AppearsAsMonetary(input[i].tx_id)
NoDangling == \A i \in Positions : ~Dangling(i)

SettlementsOf(i) == {k \in 1..Len(history) : history[k].pos = i}
QueuedCopies(i) ==
    {k \in 1..Len(unprocessed_transactions) : unprocessed_transactions[k] = i}

\* The funds funds_held gains when a record of this type is settled with amount a
HeldGain(type, a) == IF type = "Dispute" THEN a ELSE 0 - a

\* A forward-referencing record is, at every moment, either waiting in the
\* queue (once) or settled (once), and it was settled against a Deposit or
\* Withdrawal of the input with its tx_id, moving that record's amount.
C5_Safety ==
    /\ \A i \in Positions : Resolvable(i) =>
          /\ Cardinality(SettlementsOf(i)) + Cardinality(QueuedCopies(i)) = 1
          /\ \A k \in SettlementsOf(i) :
                /\ history[k].ref.some
                /\ history[k].ref.val.type \in MonetaryTypes
                /\ history[k].ref.val.tx_id = input[i].tx_id
                /\ \E j \in Positions : input[j] = history[k].ref.val
    /\ (Settled /\ IsReference(last.pos)) =>
          LastAccount.funds_held - last.before.funds_held =
             IF last.ref.val.amount.some
             THEN HeldGain(last.tx.type, last.ref.val.amount.val)
             ELSE 0

C5_AllSettled ==
    \A i \in Positions : Resolvable(i) => Cardinality(SettlementsOf(i)) = 1

\* C5: every Dispute/Resolve/Chargeback whose tx_id appears as a Deposit or
\* Withdrawal anywhere in the input, later in the stream included, is settled
\* exactly once with that record's amount: it is requeued until the reference
\* is indexed, never dropped and never applied twice.
C5_ForwardReferenceSettledOnce == [](C5_Safety) /\ <>(C5_AllSettled)

\* C5 witness: a record that came before the Deposit/Withdrawal it names was
\* requeued, popped again and settled with that record's amount.
C5_Witness ==
    /\ Settled
    /\ IsReference(last.pos)
    /\ pops[last.pos] = 2
    /\ \E j \in Positions : j > last.pos /\ input[j] = last.ref.val
    /\ last.ref.val.amount.some
    /\ LastAccount # last.before

Terminated == pc = "done" /\ unprocessed_transactions = <<>>

\* C6: when every Dispute/Resolve/Chargeback of the input names a tx_id that
\* some Deposit or Withdrawal of the input carries, process_transactions
\* terminates with an empty queue, each record being popped at most twice.
\* (input never changes, so NoDangling is settled by the first state of a run)
C6_TerminatesWithoutDangling ==
    /\ [](NoDangling => \A i \in Positions : pops[i] <= 2)
    /\ <>(NoDangling => Terminated)

\* C6 witness: the loop has ended on a stream with a forward reference, which
\* took two pops.
C6_Witness ==
    /\ Terminated
    /\ NoDangling
    /\ \E i \in Positions : IsReference(i) /\ pops[i] = 2

\* C7: when some Dispute/Resolve/Chargeback names a tx_id that no Deposit or
\* Withdrawal of the input carries, process_transactions never terminates: the
\* record stays in the working queue for ever and the queue is never empty.
C7_DanglingNeverTerminates ==
    \A i \in Positions : Dangling(i) =>
        /\ pc = "loop"
        /\ unprocessed_transactions # <<>>
        /\ Cardinality(QueuedCopies(i)) = 1

\* C7 witness: everything else is settled and the dangling record, alone in
\* the queue, has been popped over and over.
C7_Witness ==
    /\ Len(input) > 1
    /\ Len(unprocessed_transactions) = 1
    /\ Dangling(Head(unprocessed_transactions))
    /\ pops[Head(unprocessed_transactions)] = PopCap
    /\ last.kind = "requeued"

\* C8: a Dispute (likewise a Resolve or Chargeback) is only ever settled
\* against a referenced Deposit/Withdrawal of the same client: a record naming
\* client X never moves funds on account X by the amount of a transaction of
\* another client.
C8_ReferenceOfSameClient ==
    (Settled /\ last.tx.type \in ReferenceTypes /\ last.ref.some) =>
        \/ last.ref.val.client_id = last.tx.client_id
        \/ LastAccount = last.before

\* C9: settling a Dispute whose referenced transaction has amount A takes A
\* from funds_available, adds A to funds_held and leaves funds_total and
\* locked as they were, whatever the account was before (no balance check).
C9_DisputeEffect ==
    (Settled /\ last.tx.type = "Dispute" /\ last.ref.some /\ last.ref.val.amount.some) =>
        LET b == last.before
            a == LastAccount
            A == last.ref.val.amount.val
        IN /\ a.funds_available = b.funds_available - A
           /\ a.funds_held = b.funds_held + A
           /\ a.funds_total = b.funds_total
           /\ a.locked = b.locked

\* C9 witness: a dispute was settled for more than the account had available,
\* and drove funds_available below zero.
C9_Witness ==
    /\ Settled
    /\ last.tx.type = "Dispute"
    /\ last.ref.some
    /\ last.ref.val.amount.some
    /\ last.ref.val.amount.val > last.before.funds_available
    /\ last.before.funds_available >= 0
    /\ LastAccount.funds_available < 0

\* The account after the k-th direct call
AfterCall(k) == IF k < Len(history) THEN history[k + 1].before ELSE accounts[UnitClient]

\* C10: for any account and any referenced transaction, a Dispute followed
\* by a Resolve against the same referenced transaction returns the account to
\* exactly what it was before the Dispute (available, held, total, locked).
C10_DisputeResolveIdentity ==
    \A k \in 1..(Len(history) - 1) :
        ( /\ history[k].tx.type = "Dispute"
          /\ history[k + 1].tx.type = "Resolve"
          /\ history[k].ref = history[k + 1].ref ) =>
        AfterCall(k + 1) = history[k].before

\* C10 witness: a Dispute moved an amount into the held funds of a locked
\* account and the Resolve that followed moved it back.
C10_Witness ==
    /\ Len(history) = 2
    /\ history[1].tx.type = "Dispute"
    /\ history[2].tx.type = "Resolve"
    /\ history[1].ref = history[2].ref
    /\ history[1].ref.some
    /\ history[1].ref.val.amount.some
    /\ history[1].ref.val.amount.val > 0
    /\ history[2].before # history[1].before
    /\ history[1].before.funds_held # 0
    /\ accounts[UnitClient] = history[1].before

\* The settle_transaction calls made so far on the account of client c
CallsOn(c) == SelectSeq(history, LAMBDA e : e.tx.client_id = c)

\* Deposit, Dispute, Chargeback of that deposit, on an account created for it
DepositDisputeChargeback(c) ==
    LET calls == CallsOn(c)
    IN /\ Len(calls) = 3
       /\ calls[1].tx.type = "Deposit"
       /\ calls[1].tx.amount.some
       /\ calls[1].created
       /\ calls[2].tx.type = "Dispute"
       /\ calls[2].ref = Some(calls[1].tx)
       /\ calls[3].tx.type = "Chargeback"
       /\ calls[3].ref = Some(calls[1].tx)

\* C11: settling a Chargeback whose referenced transaction has amount A takes
\* A from funds_held and from funds_total, leaves funds_available as it was and
\* sets locked; Deposit(A), Dispute, Chargeback on a fresh account ends with
\* available = 0, held = 0, total = 0, locked = true.
C11_ChargebackEffect ==
    /\ (Settled /\ last.tx.type = "Chargeback" /\ last.ref.some /\ last.ref.val.amount.some) =>
          LET b == last.before
              a == LastAccount
              A == last.ref.val.amount.val
          IN /\ a.funds_held = b.funds_held - A
             /\ a.funds_total = b.funds_total - A
             /\ a.funds_available = b.funds_available
             /\ a.locked
    /\ \A c \in DOMAIN accounts :
          DepositDisputeChargeback(c) =>
             /\ accounts[c].funds_available = 0
             /\ accounts[c].funds_held = 0
             /\ accounts[c].funds_total = 0
             /\ accounts[c].locked

\* C11 witness: the chargeback that ends Deposit, Dispute, Chargeback has
\* just been settled.
C11_Witness ==
    /\ Settled
    /\ last.tx.type = "Chargeback"
    /\ DepositDisputeChargeback(last.tx.client_id)
    /\ last.before.funds_held > 0

\* C12: settling a Deposit with amount A adds A to funds_available and to
\* funds_total and leaves funds_held and locked as they were, so that a
\* freshly created account ends with available = total = A, held = 0, not
\* locked; a Deposit without amount leaves the account unchanged.
C12_DepositEffect ==
    (Settled /\ last.tx.type = "Deposit") =>
        LET b == last.before
            a == LastAccount
            A == last.tx.amount
        IN /\ A.some =>
                /\ a.funds_available = b.funds_available + A.val
                /\ a.funds_total = b.funds_total + A.val
                /\ a.funds_held = b.funds_held
                /\ a.locked = b.locked
           /\ (A.some /\ last.created) =>
                /\ a.funds_available = A.val
                /\ a.funds_total = A.val
                /\ a.funds_held = 0
                /\ ~a.locked
           /\ ~A.some =>
                /\ a.funds_available = b.funds_available
                /\ a.funds_total = b.funds_total
                /\ a.funds_held = b.funds_held
                /\ a.locked = b.locked

\* C12 witness: an account was created by a Deposit with an amount, and a
\* Deposit without amount has then been settled on it.
C12_Witness ==
    /\ Len(history) = 2
    /\ history[1].tx.type = "Deposit"
    /\ history[1].tx.amount.some
    /\ history[1].created
    /\ history[2].tx.type = "Deposit"
    /\ ~history[2].tx.amount.some
    /\ history[2].tx.client_id = history[1].tx.client_id
    /\ LastAccount = history[2].before
    /\ LastAccount.funds_available = history[1].tx.amount.val

PoppedPositions == {i \in Positions : pops[i] >= 1}

\* C13: at every step the account map has exactly one entry for each client_id
\* carried by a record popped so far (records only deferred, or whose
\* reference never exists, included); the entry is made on the first pop of a
\* record of that client, with all balances zero and unlocked, and is never
\* removed.
C13_AccountPerPoppedClient ==
    /\ DOMAIN accounts = {input[i].client_id : i \in PoppedPositions}
    /\ \A c \in DOMAIN accounts : accounts[c].client_id = c
    /\ last.kind # "none" =>
          /\ last.created =>
               /\ last.before = Account_new(last.tx.client_id)
               /\ \A i \in PoppedPositions :
                     input[i].client_id = last.tx.client_id => i = last.pos
          /\ ~last.created =>
               \E i \in PoppedPositions :
                   /\ input[i].client_id = last.tx.client_id
                   /\ (i # last.pos \/ pops[i] >= 2)
          /\ (last.created /\ last.kind = "requeued") =>
               accounts[last.tx.client_id] = Account_new(last.tx.client_id)

\* C13 witness: the only record of a client is a dangling one, popped again
\* and again, and the client has its account, all zero.
C13_Witness ==
    /\ last.kind = "requeued"
    /\ Dangling(last.pos)
    /\ pops[last.pos] = PopCap
    /\ \A i \in Positions : i # last.pos => input[i].client_id # last.tx.client_id
    /\ Len(input) > 1
    /\ accounts[last.tx.client_id] = Account_new(last.tx.client_id)

\* ---------------------------------------------- the order of settlement
InputOrder == [i \in Positions |-> i]
IsMonetary(i) == input[i].type \in MonetaryTypes

\* A record that can be settled when it is first popped: a Deposit or
\* Withdrawal, or a record whose tx_id an earlier Deposit/Withdrawal carries
SettledOnFirstPop(i) ==
    \/ IsMonetary(i)
    \/ \E j \in 1..(i - 1) : IsMonetary(j) /\ input[j].tx_id = input[i].tx_id
DeferredOnFirstPop(i) == ~SettledOnFirstPop(i)

\* First the records settled on their first pop, then the deferred ones, each
\* group in input order
Reordered ==
    SelectSeq(InputOrder, SettledOnFirstPop) \o SelectSeq(InputOrder, DeferredOnFirstPop)

\* A plain replay, one record after the other, of the records at the places
\* listed in order: the accounts it ends with
RECURSIVE Replay(_, _, _)
Replay(order, accs, refs) ==
    IF order = <<>>
    THEN accs
    ELSE LET tx == input[Head(order)]
             c == tx.client_id
             a0 == IF c \in DOMAIN accs THEN accs ELSE Insert(accs, c, Account_new(c))
         IN IF tx.type \in MonetaryTypes
            THEN Replay(Tail(order),
                        [a0 EXCEPT ![c] = settle_transaction(a0[c], tx, None)],
                        Insert(refs, tx.tx_id, tx))
            ELSE Replay(Tail(order),
                        [a0 EXCEPT ![c] = settle_transaction(a0[c], tx, Get(refs, tx.tx_id))],
                        refs)

SettledOrder == [k \in 1..Len(history) |-> history[k].pos]

\* C14: for an input without dangling reference the final accounts are those
\* of a plain in-order replay of the reordered stream (the records settled on
\* their first pop, in input order, then the records deferred on their first
\* pop, in input order): deferred records are settled first in first out and
\* only once every record of the input has been popped, so after every
\* Deposit/Withdrawal.
C14_ReplayOfReorderedStream ==
    /\ pc = "done" =>
          /\ SettledOrder = Reordered
          /\ accounts = Replay(Reordered, EmptyMap, EmptyMap)
    /\ (Settled /\ DeferredOnFirstPop(last.pos)) =>
          /\ \A i \in Positions : pops[i] >= 1
          /\ \A i \in Positions : IsMonetary(i) => SettlementsOf(i) # {}

\* C14 witness: the loop has ended on a stream whose deferred record was
\* settled after a later Withdrawal, and replaying the stream in its own order
\* would have ended with other balances.
C14_Witness ==
    /\ pc = "done"
    /\ Len(input) > 0
    /\ Reordered # InputOrder
    /\ accounts # Replay(InputOrder, EmptyMap, EmptyMap)
    /\ \E i \in Positions : input[i].type = "Withdrawal"

\* C15: Deposit and Withdrawal records are never requeued: each is settled
\* exactly once, on its first pop, and they are settled in their input order.
C15_MonetarySettledOnceInOrder ==
    /\ last.kind = "requeued" => ~IsMonetary(last.pos)
    /\ \A i \in Positions : IsMonetary(i) =>
          /\ pops[i] <= 1
          /\ Cardinality(SettlementsOf(i)) = pops[i]
          /\ Cardinality(QueuedCopies(i)) = 1 - pops[i]
          \* not yet popped: it waits behind records of the input before it
          \* that were not popped either, so its turn comes
          /\ pops[i] = 0 =>
                \A k \in QueuedCopies(i) : \A h \in 1..(k - 1) :
                    /\ unprocessed_transactions[h] < i
                    /\ pops[unprocessed_transactions[h]] = 0
    /\ \A k1 \in 1..Len(history) : \A k2 \in (k1 + 1)..Len(history) :
          (IsMonetary(history[k1].pos) /\ IsMonetary(history[k2].pos)) =>
              history[k1].pos < history[k2].pos
    /\ pc = "done" => \A i \in Positions : IsMonetary(i) => pops[i] = 1

\* C15 witness: a Withdrawal and a Deposit were settled in input order while
\* the record before them kept being requeued; the Withdrawal found no funds
\* and was not retried once the Deposit had brought them.
C15_Witness ==
    /\ Len(history) = 2
    /\ history[1].tx.type = "Withdrawal"
    /\ history[2].tx.type = "Deposit"
    /\ history[2].tx.amount.some
    /\ history[2].tx.client_id = history[1].tx.client_id
    /\ history[1].pos = 2
    /\ history[2].pos = 3
    /\ pops[1] = PopCap
    /\ LastAccount.funds_available = history[2].tx.amount.val

\* The latest Deposit/Withdrawal popped that carries tx_id t
LatestMonetary(t) ==
    LET ks == {k \in 1..Len(history) : IsMonetary(history[k].pos) /\ history[k].tx.tx_id = t}
    IN history[CHOOSE k \in ks : \A h \in ks : h <= k].tx

\* C16: at every step the reference index holds only Deposit and Withdrawal
\* records, each under its own tx_id, and has an entry for the tx_id of every
\* Deposit/Withdrawal popped so far, a Withdrawal that found no funds and a
\* record without amount included; Dispute, Resolve and Chargeback records
\* are never inserted and no entry is removed.
C16_ReferenceIndex ==
    /\ DOMAIN ref_txs = {input[i].tx_id : i \in {p \in PoppedPositions : IsMonetary(p)}}
    /\ \A t \in DOMAIN ref_txs :
          /\ ref_txs[t].type \in MonetaryTypes
          /\ ref_txs[t].tx_id = t
          /\ ref_txs[t] = LatestMonetary(t)

\* C16 witness: the index holds a Deposit without amount and a Withdrawal
\* that has just been refused for lack of funds.
C16_Witness ==
    /\ Settled
    /\ last.tx.type = "Withdrawal"
    /\ LastAccount = last.before
    /\ ref_txs[last.tx.tx_id] = last.tx
    /\ \E t \in DOMAIN ref_txs : ref_txs[t].type = "Deposit" /\ ~ref_txs[t].amount.some
    /\ \E i \in PoppedPositions : IsReference(i)

NoAmountToMove(ref) == ~ref.some \/ ~ref.val.amount.some

\* C17: settling a Dispute, Resolve or Chargeback whose referenced
\* transaction is missing or has no amount leaves the account as it was:
\* available, held and total keep their values and a Chargeback does not lock.
C17_NoReferenceNoEffect ==
    (Settled /\ last.tx.type \in ReferenceTypes /\ NoAmountToMove(last.ref)) =>
        /\ LastAccount.funds_available = last.before.funds_available
        /\ LastAccount.funds_held = last.before.funds_held
        /\ LastAccount.funds_total = last.before.funds_total
        /\ LastAccount.locked = last.before.locked

\* C17 witness: a Chargeback without referenced transaction, then one whose
\* referenced transaction has no amount, were settled on an unlocked account
\* with funds held, and it is unlocked still.
C17_Witness ==
    /\ Len(history) = 2
    /\ history[1].tx.type = "Chargeback"
    /\ ~history[1].ref.some
    /\ history[2].tx.type = "Chargeback"
    /\ history[2].ref.some
    /\ ~history[2].ref.val.amount.some
    /\ history[1].before.funds_held > 0
    /\ ~history[1].before.locked
    /\ accounts[UnitClient] = history[1].before

\* The Disputes, before the latest call, that named the same tx_id for the
\* same client
EarlierDisputes ==
    {k \in 1..(Len(history) - 1) :
        /\ history[k].tx.type = "Dispute"
        /\ history[k].tx.tx_id = last.tx.tx_id
        /\ history[k].tx.client_id = last.tx.client_id}

\* C18: dispute-state transitions are not validated: a Resolve or a
\* Chargeback for a tx_id never disputed, and a second Dispute of a tx_id
\* already disputed, are settled with the full arithmetic of their type, so
\* that funds_held can go below zero or above the disputed amount.
C18_DisputeStateNotValidated ==
    (Settled /\ last.tx.type \in ReferenceTypes /\ ~NoAmountToMove(last.ref)) =>
        LET b == last.before
            a == LastAccount
            A == last.ref.val.amount.val
        IN /\ (last.tx.type = "Resolve" /\ EarlierDisputes = {}) =>
                /\ a.funds_available = b.funds_available + A
                /\ a.funds_held = b.funds_held - A
           /\ (last.tx.type = "Chargeback" /\ EarlierDisputes = {}) =>
                /\ a.funds_held = b.funds_held - A
                /\ a.funds_total = b.funds_total - A
           /\ (last.tx.type = "Dispute" /\ EarlierDisputes # {}) =>
                /\ a.funds_available = b.funds_available - A
                /\ a.funds_held = b.funds_held + A

\* C18 witness: a deposit was disputed twice, and the funds held are twice
\* its amount.
C18_Witness ==
    /\ Settled
    /\ last.tx.type = "Dispute"
    /\ EarlierDisputes # {}
    /\ last.ref.val.amount.some
    /\ last.ref.val.amount.val > 0
    /\ LastAccount.funds_held = 2 * last.ref.val.amount.val
    /\ LastAccount.funds_available < 0

\* C19: funds_available >= 0 is no invariant, as a Dispute takes the
\* referenced amount without looking at the balance (Deposit, Withdrawal,
\* Dispute of the Deposit ends below zero); a Withdrawal by itself never takes
\* funds_available from zero or above to below zero.
C19_WithdrawalKeepsNonNegative ==
    (Settled /\ last.tx.type = "Withdrawal" /\ last.before.funds_available >= 0) =>
        LastAccount.funds_available >= 0

\* C19 witness: a Deposit, a Withdrawal that went through and the Dispute of
\* the Deposit have left funds_available below zero.
C19_Witness ==
    /\ Len(history) = 3
    /\ history[1].tx.type = "Deposit"
    /\ history[2].tx.type = "Withdrawal"
    /\ history[2].tx.client_id = history[1].tx.client_id
    /\ history[3].tx.type = "Dispute"
    /\ history[3].tx.client_id = history[1].tx.client_id
    /\ history[3].ref = Some(history[1].tx)
    /\ history[2].before.funds_available >= history[2].tx.amount.val
    /\ history[3].before.funds_available >= 0
    /\ LastAccount.funds_available < 0

\* The iteration about to run only requeues its record
OnlyRequeues ==
    /\ pc = "loop"
    /\ unprocessed_transactions # <<>>
    /\ LET tx == input[Head(unprocessed_transactions)]
       IN tx.type \in ReferenceTypes /\ tx.tx_id \notin DOMAIN ref_txs

PoppedClient == input[Head(unprocessed_transactions)].client_id

\* C20: an iteration of the loop changes at most the account of the popped
\* record's client; the balances and the lock of every other account are as
\* before, and an iteration that only requeues its record changes the fields
\* of no existing account and leaves the reference index as it was.
C20_IterationFrame ==
    [][/\ \A c \in DOMAIN accounts :
             /\ c \in DOMAIN accounts'
             /\ (unprocessed_transactions = <<>> \/ c # PoppedClient \/ OnlyRequeues)
                   => accounts'[c] = accounts[c]
       /\ OnlyRequeues => ref_txs' = ref_txs]_vars

\* C20 witness: a record of one client was requeued while the other client
\* had an account with funds, after a record of that client was settled.
C20_Witness ==
    /\ last.kind = "requeued"
    /\ ~last.created
    /\ LastAccount.funds_available # 0
    /\ \E c \in DOMAIN accounts :
          /\ c # last.tx.client_id
          /\ accounts[c].funds_total # 0
    /\ DOMAIN ref_txs # {}

====
